---- MODULE Spec2Model ----
(***************************************************************************)
(* Model of youtube_extract_liked_videos.py: VideoProcessor.__init__, the  *)
(* transcript resolver, the existence check, the dual-store writer and the *)
(* run loop.  Strings are sequences of one-character strings, so that      *)
(* str.split and str.join are computed as Python computes them.            *)
(***************************************************************************)
EXTENDS Naturals, Sequences, FiniteSets

VARIABLES
    pc,          \* position of the process: startup steps, run loop, exited
    runs,        \* number of process launches so far
    env,         \* which of MONGO_URI / SUPABASE_URL / SUPABASE_KEY are set
    token,       \* state of token.json when the process starts
    outcome,     \* how the process ended
    mongo,       \* store A: number of documents per video_id
    supabase,    \* store B: number of rows per video_id
    page,        \* liked_videos of the current run
    idx,         \* index of the current video_item
    chk,         \* inputs and result of the latest _check_if_video_exists
    wr,          \* inputs and result of the latest _insert_video_data
    url,         \* argument of _get_transcript
    rpc,         \* position inside _get_transcript
    video_id,    \* local video_id of _get_transcript
    primary,     \* what youtube-transcript-api did in this call
    fallback,    \* what pytube did in this call
    result,      \* return value of _get_transcript
    log,         \* startup calls, store calls and loop steps of the current process
    present0,    \* ids held by either store when the process started
    written      \* ids this program has inserted into store A, over all runs

vars == <<pc, runs, env, token, outcome, mongo, supabase, page, idx, chk, wr,
          url, rpc, video_id, primary, fallback, result, log, present0, written>>

(* ------------------------------ bounds -------------------------------- *)
MaxUrlLen == 5
MaxSegs == 2
MaxPage == 2
MaxRuns == 2

(* ------------------------------ strings ------------------------------- *)
Str(n) == UNION {[1..k -> {"?", "v", "=", "&", "a"}] : k \in 0..n}

Last(s) == s[Len(s)]

\* 1-based index of the first occurrence of sep in s, 0 when there is none
find(s, sep) ==
    LET hits == {i \in 1..Len(s) : /\ i + Len(sep) - 1 <= Len(s)
                                   /\ SubSeq(s, i, i + Len(sep) - 1) = sep}
    IN IF hits = {} THEN 0 ELSE CHOOSE i \in hits : \A j \in hits : i <= j

\* str.split(sep): leftmost, non-overlapping; always at least one piece
RECURSIVE split(_, _)
split(s, sep) ==
    LET i == find(s, sep)
    IN IF i = 0 THEN <<s>>
       ELSE <<SubSeq(s, 1, i - 1)>> \o split(SubSeq(s, i + Len(sep), Len(s)), sep)

\* sep.join(parts)
RECURSIVE join(_, _)
join(sep, parts) ==
    IF parts = <<>> THEN <<>>
    ELSE IF Len(parts) = 1 THEN parts[1]
    ELSE parts[1] \o sep \o join(sep, Tail(parts))

NoTranscript ==
    <<"N","o"," ","t","r","a","n","s","c","r","i","p","t"," ",
      "a","v","a","i","l","a","b","l","e">>

WatchPrefix ==
    <<"h","t","t","p","s",":","/","/","w","w","w",".","y","o","u","t","u","b","e",
      ".","c","o","m","/","w","a","t","c","h","?","v","=">>

\* caption.generate_srt_captions() of the caption track of one language
SrtCaptions(lang) == IF lang = "en" THEN <<"1","e","n">> ELSE <<"1","t","a">>

(* ------------------------- transcript resolver ------------------------ *)
_get_video_id_from_url(u) == split(Last(split(u, <<"v", "=">>)), <<"&">>)[1]

NotContacted == [kind |-> "not_contacted", segs |-> <<>>, en |-> "absent", ta |-> "absent"]

SegTexts == {<<"a">>, <<"b">>}
SegLists == UNION {[1..k -> SegTexts] : k \in 0..MaxSegs}

PrimaryErrors == {"TranscriptsDisabled", "NoTranscriptFound",
                  "CouldNotRetrieveTranscript", "Exception"}

\* what YouTubeTranscriptApi.get_transcript can do
PrimaryOutcomes ==
    {[kind |-> "segments", segs |-> s, en |-> "absent", ta |-> "absent"] : s \in SegLists}
    \cup {[kind |-> e, segs |-> <<>>, en |-> "absent", ta |-> "absent"] : e \in PrimaryErrors}

CaptionStates == {"absent", "ok", "srt_raises"}

\* what YouTube(url), yt.captions and generate_srt_captions can do
FallbackOutcomes ==
    {[kind |-> "captions", segs |-> <<>>, en |-> e, ta |-> t] :
        e \in CaptionStates, t \in CaptionStates}
    \cup {[kind |-> k, segs |-> <<>>, en |-> "absent", ta |-> "absent"] :
            k \in {"PytubeError", "Exception"}}

NoResult == [text |-> <<>>, tag |-> "pending"]
Unavailable == [text |-> NoTranscript, tag |-> "None"]

\* the caption chosen by  get_by_language_code('en') or get_by_language_code('ta')
CaptionLang(f) == IF f.en # "absent" THEN "en" ELSE IF f.ta # "absent" THEN "ta" ELSE "none"

\* lines 85-95: the value the pytube block and the final return produce
FallbackResult(f) ==
    IF f.kind # "captions" THEN Unavailable
    ELSE LET l == CaptionLang(f)
         IN IF l = "none" THEN Unavailable
            ELSE IF f[l] = "srt_raises" THEN Unavailable
            ELSE [text |-> SrtCaptions(l), tag |-> "pytube"]

PrimaryResult_nosep(p) == [text |-> join(<<>>, p.segs), tag |-> "yta"]

PrimaryResult(p) == [text |-> join(<<" ">>, p.segs), tag |-> "yta"]

Ev(op, id, ok) == [op |-> op, id |-> id, ok |-> ok]

\* pc after _get_transcript returns: the run loop goes on to build the record
AfterTranscript == IF pc = "transcript" THEN "insert" ELSE pc

\* lines 70-72
GetVideoId ==
    /\ rpc = "extract"
    /\ video_id' = _get_video_id_from_url(url)
    /\ IF video_id' = <<>>
       THEN /\ result' = Unavailable
            /\ rpc' = "returned"
            /\ pc' = AfterTranscript
       ELSE /\ result' = result
            /\ rpc' = "primary"
            /\ pc' = pc
    /\ UNCHANGED <<runs, env, token, outcome, mongo, supabase, page, idx, chk, wr,
                   url, primary, fallback, log, present0, written>>

\* lines 75-82
PrimaryProvider ==
    /\ rpc = "primary"
    /\ \E p \in PrimaryOutcomes :
        /\ primary' = p
        /\ IF p.kind = "segments"
           THEN /\ result' = PrimaryResult(p)
                /\ rpc' = "returned"
                /\ pc' = AfterTranscript
           ELSE /\ result' = result
                /\ rpc' = "fallback"
                /\ pc' = pc
    /\ UNCHANGED <<runs, env, token, outcome, mongo, supabase, page, idx, chk, wr,
                   url, video_id, fallback, log, present0, written>>

\* lines 85-95
FallbackProvider ==
    /\ rpc = "fallback"
    /\ \E f \in FallbackOutcomes :
        /\ fallback' = f
        /\ result' = FallbackResult(f)
    /\ rpc' = "returned"
    /\ pc' = AfterTranscript
    /\ UNCHANGED <<runs, env, token, outcome, mongo, supabase, page, idx, chk, wr,
                   url, video_id, primary, log, present0, written>>

_get_transcript == GetVideoId \/ PrimaryProvider \/ FallbackProvider

(* ------------------------------- stores ------------------------------- *)
VideoIds == {<<"a">>, <<"b">>, <<"c">>}

\* response.get('items', []): at most MaxPage distinct liked videos
Pages == {p \in UNION {[1..k -> VideoIds] : k \in 0..MaxPage} :
            \A i, j \in 1..Len(p) : p[i] = p[j] => i = j}

Envs == [MONGO_URI : BOOLEAN, SUPABASE_URL : BOOLEAN, SUPABASE_KEY : BOOLEAN]
Tokens == {"valid", "expired", "absent"}

Present(m, s) == {v \in VideoIds : m[v] > 0 \/ s[v] > 0}

\* line 14 binds the name supabase_exceptions to the ClientOptions class
supabase_exceptions == "ClientOptions"

\* ClientOptions is an options dataclass; it has no attribute APIError
HasAPIError(obj) == obj # "ClientOptions"

\* line 103: what the except clause does with an exception raised at line 101
ExceptAPIError(exc) ==
    IF ~HasAPIError(supabase_exceptions) THEN "AttributeError"
    ELSE IF exc = "APIError" THEN "caught"
    ELSE "propagates"

_check_if_video_exists_and(m, s, q_find, q_select) ==
    [raised |-> q_find # "ok" \/ q_select # "ok", value |-> m > 0 /\ s > 0]

_check_if_video_exists_never(m, s, q_find, q_select) ==
    [raised |-> q_find # "ok" \/ q_select # "ok", value |-> FALSE]

_check_if_video_exists_b_only(m, s, q_find, q_select) ==
    [raised |-> q_find # "ok" \/ q_select # "ok", value |-> s > 0]

\* lines 97-107; m, s: matching records held by store A and store B;
\* q_find, q_select: "ok" or the exception the store call raises
_check_if_video_exists(m, s, q_find, q_select) ==
    LET exists_mongo == m > 0
    IN IF q_find # "ok" THEN [raised |-> TRUE, value |-> FALSE]
       ELSE IF q_select = "ok" THEN [raised |-> FALSE, value |-> exists_mongo \/ s > 0]
       ELSE IF ExceptAPIError(q_select) = "caught"
            THEN [raised |-> FALSE, value |-> exists_mongo \/ FALSE]
       ELSE [raised |-> TRUE, value |-> FALSE]

InsertOutcomes == {"ok", "fail", "fail_written"}

Stored(o) == IF o \in {"ok", "fail_written"} THEN 1 ELSE 0

_insert_video_data_reraise(mo, so) ==
    IF mo # "ok"
    THEN [raised |-> TRUE, to_mongo |-> Stored(mo), to_supabase |-> 0,
          supabase |-> "not_attempted"]
    ELSE [raised |-> so # "ok", to_mongo |-> 1, to_supabase |-> Stored(so),
          supabase |-> so]

\* lines 109-121; mo, so: what insert_one and insert(...).execute() do
_insert_video_data(mo, so) ==
    IF mo # "ok"
    THEN [raised |-> FALSE, to_mongo |-> Stored(mo), to_supabase |-> 0,
          supabase |-> "not_attempted"]
    ELSE [raised |-> FALSE, to_mongo |-> 1, to_supabase |-> Stored(so),
          supabase |-> so]

NoCheck == [called |-> FALSE, id |-> <<>>, in_mongo |-> FALSE, in_supabase |-> FALSE,
            q_find |-> "ok", q_select |-> "ok", raised |-> FALSE, value |-> FALSE]

NoWrite == [called |-> FALSE, id |-> <<>>, mongo |-> "ok", supabase |-> "not_attempted",
            raised |-> FALSE]

\* the for statement of line 134 with i as the next index
LoopPc(p, i) == IF i > Len(p) THEN "exited" ELSE "check"
LoopOutcome(p, i) == IF i > Len(p) THEN "completed" ELSE "running"

(* ------------------------------ startup ------------------------------- *)
\* lines 34-51, called from line 28
_get_youtube_service ==
    /\ pc = "init"
    /\ \E ok \in BOOLEAN :
        /\ ok \/ token # "valid"
        /\ log' = log
                  \o (IF token = "expired" THEN <<Ev("oauth_refresh", <<>>, ok)>>
                      ELSE IF token = "absent" THEN <<Ev("oauth_flow", <<>>, ok)>>
                      ELSE <<>>)
                  \o (IF ok THEN <<Ev("build_service", <<>>, TRUE)>> ELSE <<>>)
        /\ token' = IF ok THEN "valid" ELSE token
        /\ pc' = IF ok THEN "mongo_setup" ELSE "exited"
        /\ outcome' = IF ok THEN outcome ELSE "startup_error"
    /\ UNCHANGED <<runs, env, mongo, supabase, page, idx, chk, wr, url, rpc, video_id,
                   primary, fallback, result, present0, written>>

\* lines 53-56, called from line 29
_setup_mongo_client ==
    /\ pc = "mongo_setup"
    /\ IF ~env.MONGO_URI
       THEN /\ pc' = "exited"
            /\ outcome' = "config_error"
            /\ log' = log
       ELSE /\ pc' = "supabase_setup"
            /\ outcome' = outcome
            /\ log' = Append(log, Ev("mongo_client", <<>>, TRUE))
    /\ UNCHANGED <<runs, env, token, mongo, supabase, page, idx, chk, wr, url, rpc,
                   video_id, primary, fallback, result, present0, written>>

\* lines 58-61, called from line 30
_setup_supabase_client ==
    /\ pc = "supabase_setup"
    /\ IF ~env.SUPABASE_URL \/ ~env.SUPABASE_KEY
       THEN /\ pc' = "exited"
            /\ outcome' = "config_error"
            /\ log' = log
       ELSE /\ pc' = "run"
            /\ outcome' = outcome
            /\ log' = Append(log, Ev("supabase_client", <<>>, TRUE))
    /\ UNCHANGED <<runs, env, token, mongo, supabase, page, idx, chk, wr, url, rpc,
                   video_id, primary, fallback, result, present0, written>>

(* ------------------------------ run loop ------------------------------ *)
\* lines 125-134 and the handlers of lines 156-159
ListLikedVideos ==
    /\ pc = "run"
    /\ \/ \E p \in Pages :
            /\ page' = p
            /\ idx' = 1
            /\ log' = Append(log, Ev("list", <<>>, TRUE))
            /\ pc' = LoopPc(p, 1)
            /\ outcome' = LoopOutcome(p, 1)
       \/ \E e \in {"http_error", "unexpected_error"} :
            /\ log' = Append(log, Ev("list", <<>>, FALSE))
            /\ pc' = "exited"
            /\ outcome' = e
            /\ UNCHANGED <<page, idx>>
    /\ UNCHANGED <<runs, env, token, mongo, supabase, chk, wr, url, rpc, video_id,
                   primary, fallback, result, present0, written>>

\* lines 135-140: the existence check and the branch on its result
CheckIfVideoExists ==
    /\ pc = "check"
    /\ LET id == page[idx]
       IN \E q_find \in {"ok", "raises"}, q_select \in {"ok", "APIError", "Exception"} :
            LET r == _check_if_video_exists(mongo[id], supabase[id], q_find, q_select)
                evs == <<Ev("find_one", id, q_find = "ok")>>
                       \o (IF q_find = "ok" THEN <<Ev("select", id, q_select = "ok")>>
                           ELSE <<>>)
            IN /\ q_find = "ok" \/ q_select = "ok"
               /\ chk' = [called |-> TRUE, id |-> id, in_mongo |-> mongo[id] > 0,
                          in_supabase |-> supabase[id] > 0, q_find |-> q_find,
                          q_select |-> q_select, raised |-> r.raised, value |-> r.value]
               /\ IF r.raised
                  THEN /\ pc' = "exited"
                       /\ outcome' = "unexpected_error"
                       /\ log' = log \o evs
                       /\ UNCHANGED <<idx, url, rpc>>
                  ELSE IF r.value
                  THEN /\ pc' = LoopPc(page, idx + 1)
                       /\ outcome' = LoopOutcome(page, idx + 1)
                       /\ idx' = idx + 1
                       /\ log' = log \o evs \o <<Ev("skip", id, TRUE)>>
                       /\ UNCHANGED <<url, rpc>>
                  ELSE /\ pc' = "transcript"
                       /\ outcome' = outcome
                       /\ idx' = idx
                       /\ log' = log \o evs \o <<Ev("transcript", id, TRUE)>>
                       /\ url' = WatchPrefix \o id
                       /\ rpc' = "extract"
    /\ UNCHANGED <<runs, env, token, mongo, supabase, page, wr, video_id, primary,
                   fallback, result, present0, written>>

\* lines 143-153: build video_data and write it to both stores; the locals of
\* the resolver call are dead once video_data holds the transcript
InsertVideoData ==
    /\ pc = "insert"
    /\ LET id == page[idx]
       IN \E mo \in InsertOutcomes, so \in InsertOutcomes :
            LET r == _insert_video_data(mo, so)
            IN /\ mo = "ok" \/ so = "ok"   \* line 117 runs only after line 112 returned
               /\ mongo' = [mongo EXCEPT ![id] = @ + r.to_mongo]
               /\ supabase' = [supabase EXCEPT ![id] = @ + r.to_supabase]
               /\ written' = IF r.to_mongo > 0 THEN written \cup {id} ELSE written
               /\ wr' = [called |-> TRUE, id |-> id, mongo |-> mo,
                         supabase |-> r.supabase, raised |-> r.raised]
               /\ log' = log \o <<Ev("build", id, TRUE), Ev("insert_one", id, mo = "ok")>>
                             \o (IF r.supabase = "not_attempted" THEN <<>>
                                 ELSE <<Ev("insert", id, so = "ok")>>)
               /\ pc' = IF r.raised THEN "exited" ELSE "sleep"
               /\ outcome' = IF r.raised THEN "unexpected_error" ELSE outcome
    /\ url' = <<>>
    /\ rpc' = "idle"
    /\ video_id' = <<>>
    /\ primary' = NotContacted
    /\ fallback' = NotContacted
    /\ result' = NoResult
    /\ UNCHANGED <<runs, env, token, page, idx, chk, present0>>

\* line 154 and the next iteration of line 134
Sleep ==
    /\ pc = "sleep"
    /\ log' = Append(log, Ev("sleep", page[idx], TRUE))
    /\ idx' = idx + 1
    /\ pc' = LoopPc(page, idx + 1)
    /\ outcome' = LoopOutcome(page, idx + 1)
    /\ UNCHANGED <<runs, env, token, mongo, supabase, page, chk, wr, url, rpc, video_id,
                   primary, fallback, result, present0, written>>

\* lines 161-164: the script is started again; the stores and token.json persist
Launch ==
    /\ pc = "exited"
    /\ runs < MaxRuns
    /\ runs' = runs + 1
    /\ env' \in Envs
    /\ token' \in Tokens
    /\ pc' = "init"
    /\ outcome' = "running"
    /\ page' = <<>>
    /\ idx' = 0
    /\ chk' = NoCheck
    /\ wr' = NoWrite
    /\ url' = <<>>
    /\ rpc' = "idle"
    /\ video_id' = <<>>
    /\ primary' = NotContacted
    /\ fallback' = NotContacted
    /\ result' = NoResult
    /\ log' = <<>>
    /\ present0' = Present(mongo, supabase)
    /\ UNCHANGED <<mongo, supabase, written>>

(* --------------------------- specifications --------------------------- *)
Init ==
    /\ pc = "init"
    /\ runs = 1
    /\ env \in Envs
    /\ token \in Tokens
    /\ outcome = "running"
    /\ mongo \in [VideoIds -> 0..1]
    /\ supabase \in [VideoIds -> 0..1]
    /\ page = <<>>
    /\ idx = 0
    /\ chk = NoCheck
    /\ wr = NoWrite
    /\ url = <<>>
    /\ rpc = "idle"
    /\ video_id = <<>>
    /\ primary = NotContacted
    /\ fallback = NotContacted
    /\ result = NoResult
    /\ log = <<>>
    /\ present0 = Present(mongo, supabase)
    /\ written = {}

Next ==
    \/ _get_youtube_service
    \/ _setup_mongo_client
    \/ _setup_supabase_client
    \/ ListLikedVideos
    \/ CheckIfVideoExists
    \/ GetVideoId
    \/ PrimaryProvider
    \/ FallbackProvider
    \/ InsertVideoData
    \/ Sleep
    \/ Launch

Spec == Init /\ [][Next]_vars

\* _get_transcript called on an arbitrary URL
ResolverInit ==
    /\ pc = "resolver"
    /\ runs = 1
    /\ env = [MONGO_URI |-> TRUE, SUPABASE_URL |-> TRUE, SUPABASE_KEY |-> TRUE]
    /\ token = "valid"
    /\ outcome = "running"
    /\ mongo = [v \in VideoIds |-> 0]
    /\ supabase = [v \in VideoIds |-> 0]
    /\ page = <<>>
    /\ idx = 0
    /\ chk = NoCheck
    /\ wr = NoWrite
    /\ url \in Str(MaxUrlLen)
    /\ rpc = "extract"
    /\ video_id = <<>>
    /\ primary = NotContacted
    /\ fallback = NotContacted
    /\ result = NoResult
    /\ log = <<>>
    /\ present0 = {}
    /\ written = {}

ResolverNext == GetVideoId \/ PrimaryProvider \/ FallbackProvider

ResolverSpec == ResolverInit /\ [][ResolverNext]_vars

(* ------------------------------ properties ---------------------------- *)
Count(seq, op, id) == Cardinality({k \in 1..Len(seq) : seq[k].op = op /\ seq[k].id = id})

\* C1: the existence check returns true whenever store A holds the id, even
\* when the store B query throws an API error, and returns false exactly when
\* store A is absent and store B is absent or throws; it does not raise then.
C1_ExistsIsOrWithThrowFolded ==
    (chk.called /\ chk.q_find = "ok" /\ chk.q_select \in {"ok", "APIError"}) =>
        /\ ~chk.raised
        /\ chk.value = (chk.in_mongo \/ (chk.q_select = "ok" /\ chk.in_supabase))

\* C2: the dual-store writer never raises; after a write with any insert
\* failure the loop is at the pacing delay or at the next video, the store A
\* record of a successful store A insert stays, and each insert was attempted
\* at most once for the video.
C2_WriterNeverRaises ==
    wr.called =>
        /\ ~wr.raised
        /\ wr.mongo = "ok" => mongo[wr.id] >= 1
        /\ Count(log, "insert_one", wr.id) = 1
        /\ Count(log, "insert", wr.id) = (IF wr.mongo = "ok" THEN 1 ELSE 0)
        /\ chk.id = wr.id =>
            \/ pc = "sleep" /\ page[idx] = wr.id
            \/ pc = "check" /\ idx \in 2..Len(page) /\ page[idx - 1] = wr.id
            \/ /\ pc = "exited"
               /\ outcome = "completed"
               /\ idx = Len(page) + 1
               /\ page[Len(page)] = wr.id

\* the next video is being checked after store A took the record and store B threw
C2_Witness ==
    /\ pc = "check"
    /\ idx = 2
    /\ wr.called
    /\ wr.id = page[1]
    /\ wr.mongo = "ok"
    /\ wr.supabase = "fail"
    /\ mongo[page[1]] = 1
    /\ supabase[page[1]] = 0

LoopOps == {"find_one", "select", "skip", "transcript", "build", "insert_one",
            "insert", "sleep"}

IsLoopOp(e) == e.op \in LoopOps

NoFailure(seq) == \A k \in 1..Len(seq) : seq[k].ok

\* the loop steps a failure-free run performs on page p when the ids of seen
\* are already held by a store
RECURSIVE ExpectedSteps(_, _)
ExpectedSteps(p, seen) ==
    IF p = <<>> THEN <<>>
    ELSE LET id == Head(p)
         IN IF id \in seen
            THEN <<Ev("find_one", id, TRUE), Ev("select", id, TRUE), Ev("skip", id, TRUE)>>
                 \o ExpectedSteps(Tail(p), seen)
            ELSE <<Ev("find_one", id, TRUE), Ev("select", id, TRUE),
                   Ev("transcript", id, TRUE), Ev("build", id, TRUE),
                   Ev("insert_one", id, TRUE), Ev("insert", id, TRUE),
                   Ev("sleep", id, TRUE)>>
                 \o ExpectedSteps(Tail(p), seen \cup {id})

\* C3: a run in which no store or listing call fails completes normally, skips
\* every item a store already holds (no transcript resolution, no write, no
\* delay), and takes every other item through transcript resolution, record
\* build, dual write and pacing delay in that order, with one write cycle per
\* new item.
C3_RunSkipsPresentProcessesNew ==
    (pc = "exited" /\ outcome \in {"completed", "unexpected_error"}
        /\ NoFailure(log)) =>
        /\ outcome = "completed"
        /\ SelectSeq(log, IsLoopOp) = ExpectedSteps(page, present0)
        /\ \A v \in VideoIds :
            Count(log, "build", v) =
                (IF v \notin present0 /\ \E i \in 1..Len(page) : page[i] = v THEN 1 ELSE 0)

\* a page of one item held by store A and one new item, run to completion
C3_Witness ==
    /\ pc = "exited"
    /\ outcome = "completed"
    /\ NoFailure(log)
    /\ Len(page) = 2
    /\ page[1] \in present0
    /\ mongo[page[1]] = 1
    /\ page[2] \notin present0
    /\ Count(log, "skip", page[1]) = 1
    /\ Count(log, "build", page[2]) = 1
    /\ Count(log, "build", page[1]) = 0
    /\ Count(log, "sleep", page[2]) = 1

\* positions where a query parameter named v starts
VParams(u) ==
    {i \in 1..Len(u) : /\ i + 1 <= Len(u)
                       /\ u[i] = "v"
                       /\ u[i + 1] = "="
                       /\ (i = 1 \/ u[i - 1] \in {"?", "&"})}

\* the value of the first query parameter named v: up to the next & or the end
VParamValue(u) ==
    LET i == CHOOSE k \in VParams(u) : \A j \in VParams(u) : k <= j
        stops == {k \in (i + 2)..Len(u) : u[k] = "&"}
        e == IF stops = {} THEN Len(u) + 1
             ELSE CHOOSE k \in stops : \A j \in stops : k <= j
    IN SubSeq(u, i + 2, e - 1)

\* C4: for every URL with a query parameter v=<id>, optionally followed by
\* &..., identifier extraction yields exactly <id>, also when the text v=
\* occurs again later in the URL.
C4_ExtractionYieldsId ==
    (rpc # "extract" /\ VParams(url) # {}) => video_id = VParamValue(url)

\* C5: for every URL lacking v= the resolver returns the unavailable result
\* at once and contacts neither transcript provider.
C5_NoVParamShortCircuits ==
    (rpc # "extract" /\ find(url, <<"v", "=">>) = 0) =>
        /\ rpc = "returned"
        /\ result = Unavailable
        /\ primary = NotContacted
        /\ fallback = NotContacted

NetworkOps == {"oauth_refresh", "oauth_flow", "list", "find_one", "select",
               "insert_one", "insert"}

\* C6: when a required environment value is missing, the configuration error
\* is raised before any call to the OAuth service, the video API or a store.
C6_ConfigErrorBeforeNetwork ==
    outcome = "config_error" => \A k \in 1..Len(log) : log[k].op \notin NetworkOps

\* C7: for a URL with an extractable id the resolver returns the primary
\* provider's segment texts joined in order by single spaces, tagged yta,
\* without contacting the fallback; after any primary error it returns the
\* fallback's en caption, else its ta caption, tagged pytube; and it returns
\* the unavailable result when the fallback has no caption or raises.
C7_ResolverResult ==
    /\ rpc = "fallback" => primary.kind \in PrimaryErrors
    /\ (rpc = "returned" /\ video_id # <<>>) =>
        \/ /\ primary.kind = "segments"
           /\ fallback = NotContacted
           /\ result.tag = "yta"
           /\ IF primary.segs = <<>> THEN result.text = <<>>
              ELSE split(result.text, <<" ">>) = primary.segs
        \/ /\ primary.kind \in PrimaryErrors
           /\ fallback \in FallbackOutcomes
           /\ result =
                IF fallback.kind = "captions" /\ fallback.en = "ok"
                THEN [text |-> <<"1", "e", "n">>, tag |-> "pytube"]
                ELSE IF fallback.kind = "captions" /\ fallback.en = "absent"
                        /\ fallback.ta = "ok"
                THEN [text |-> <<"1", "t", "a">>, tag |-> "pytube"]
                ELSE [text |-> NoTranscript, tag |-> "None"]

\* two segments from the primary provider
C7_Witness ==
    /\ rpc = "returned"
    /\ primary.kind = "segments"
    /\ primary.segs = <<<<"a">>, <<"b">>>>
    /\ result = [text |-> <<"a", " ", "b">>, tag |-> "yta"]

\* C8: a store B query error in the existence check of one video does not end
\* the run: the run still goes through that video and the rest of the page.
C8_QueryErrorDoesNotEndRun ==
    (pc = "exited" /\ chk.called /\ chk.q_find = "ok" /\ chk.q_select = "APIError") =>
        /\ outcome = "completed"
        /\ idx = Len(page) + 1

\* C9: starting from stores with at most one record per video id, neither
\* store ever holds two records with the same video id.
C9_NoDuplicateRecords ==
    \A v \in VideoIds : mongo[v] <= 1 /\ supabase[v] <= 1

\* a second run met a video that an earlier run wrote, and wrote another one
\* whose store B insert failed
C9_Witness ==
    /\ runs = 2
    /\ pc = "exited"
    /\ outcome = "completed"
    /\ Len(page) = 2
    /\ page[1] \in written
    /\ Count(log, "skip", page[1]) = 1
    /\ wr.called
    /\ wr.id = page[2]
    /\ wr.mongo = "ok"
    /\ wr.supabase = "fail"

\* C10: a record that is in store A and not in store B is never written to
\* store B later, and every step that adds a record to store B adds the same
\* video's record to store A, so no record is created in store B only.
C10_AOnlyIsPermanent ==
    [][\A v \in VideoIds :
          /\ (mongo[v] >= 1 /\ supabase[v] = 0) => (mongo'[v] >= 1 /\ supabase'[v] = 0)
          /\ supabase'[v] > supabase[v] => mongo'[v] > mongo[v]]_vars

\* a later run skipped a video that an earlier run left in store A only
C10_Witness ==
    /\ runs = 2
    /\ chk.called
    /\ chk.id \in written
    /\ chk.id \notin (IF wr.called THEN {wr.id} ELSE {})
    /\ chk.in_mongo
    /\ ~chk.in_supabase
    /\ chk.value
    /\ supabase[chk.id] = 0
    /\ Count(log, "skip", chk.id) = 1

====
